---- MODULE Spec2Model ----
(***************************************************************************)
(* The client script static/js/auth.js of the banking application, as a    *)
(* state machine: the session kept in localStorage and in the access_token *)
(* cookie, the wrapped window.fetch and the htmx:configRequest hook, the   *)
(* login / registration / logout / transfer / deposit handlers, the admin  *)
(* approve / reject buttons, the notifications and the reload timers.      *)
(*                                                                         *)
(* One action is one run of a handler up to its next await, or the         *)
(* continuation of a handler after its awaits (fetch, then response.json). *)
(* Nothing is written between the two awaits of a handler, so both are one *)
(* step whose input is the outcome of the request.                         *)
(***************************************************************************)
EXTENDS Naturals, Sequences, FiniteSets, Bags, TLC

VARIABLES
    localStorage,     \* [access_token, token_type]: the stored value, or null
    cookies,          \* the cookie jar: the access_token cookie, when it is set
    navigation,       \* the navigation this document has issued, or null
    headers,          \* the header map captured at DOMContentLoaded (line 190)
    loginError,       \* #login-error
    registerError,    \* #register-error
    registerSuccess,  \* #register-success
    submitButton,     \* the submit button of #deposit-form
    depositResult,    \* #deposit-result: the panel it shows
    buttons,          \* the admin buttons: [disabled, textContent] each
    notifications,    \* the banners in #notification-container, oldest first
    timers,           \* the pending setTimeout callbacks that navigate (a bag)
    net,              \* the requests in flight with their continuation (a bag)
    call,             \* the last use of a surface by other code of the page
    forms             \* what the transfer and the deposit form hold

vars == <<localStorage, cookies, navigation, headers, loginError, registerError,
          registerSuccess, submitButton, depositResult, buttons, notifications,
          timers, net, call, forms>>

----------------------------------------------------------------------------
(* Bounds of the model. *)

\* The requests in flight at one time.
MaxInFlight == 2
\* The navigation timers pending at one time.
MaxTimers == 1
\* The banners shown at one time (each removes itself after 5 s).
MaxNotifications == 1

----------------------------------------------------------------------------
(* Values. *)

\* JavaScript's null / undefined: an absent storage entry, header or field.
null == "<null>"

\* A value in a JavaScript condition: null, undefined and "" are falsy.
Truthy(v) == v # null /\ v # ""

\* a || b that takes b whatever a is.
OrElseSecond(a, b) == b

\* a || b
OrElse(a, b) == IF Truthy(a) THEN a ELSE b

\* String.prototype.startsWith
StartsWith(s, prefix) ==
    Len(s) >= Len(prefix) /\ SubSeq(s, 1, Len(prefix)) = prefix

\* String.prototype.trim, for the blank the page's markup puts around a text.
RECURSIVE Trim(_)
Trim(s) ==
    IF Len(s) > 0 /\ SubSeq(s, 1, 1) = " " THEN Trim(SubSeq(s, 2, Len(s)))
    ELSE IF Len(s) > 0 /\ SubSeq(s, Len(s), Len(s)) = " "
    THEN Trim(SubSeq(s, 1, Len(s) - 1))
    ELSE s

\* response.ok: the status is in 200..299.
Ok(status) == status >= 200 /\ status <= 299

\* The tokens and token types a login response carries.
Tokens == {"abc", "xyz"}
TokenTypes == {"bearer"}
\* The detail field of an error response, when the server sends one.
Details == {null, "denied"}
\* The cheque numbers a deposit response carries.
Cheques == {"CHQ-1001"}
\* The response statuses.
Statuses == {200, 201, 400}

\* The header maps page code passes to fetch, and htmx builds for a request.
NoHeaders == <<>>
JsonHeaders == ("Content-Type" :> "application/json")
CallerHeaders ==
    {NoHeaders, JsonHeaders, JsonHeaders @@ ("Authorization" :> "Basic dXNlcg==")}

\* The request paths of the page.
Urls == {"/auth/login", "/auth/logout", "/api/transfer", "/api", "/apis/v2",
         "/static/api/x"}

\* obj[key] of a header map: undefined when the key is missing.
Get(h, k) == IF k \in DOMAIN h THEN h[k] ELSE null

\* obj[key] = value
Put(h, k, v) == [x \in DOMAIN h \cup {k} |-> IF x = k THEN v ELSE h[x]]

----------------------------------------------------------------------------
(* The session store: localStorage and the cookie jar. *)

NoSession == [access_token |-> null, token_type |-> null]

\* SaveSession with the two values under each other's key.
SaveSessionSwapped(store, token, tokenType) ==
    [store EXCEPT !["access_token"] = tokenType, !["token_type"] = token]

\* localStorage.setItem of both entries (lines 35-36).
SaveSession(store, token, tokenType) ==
    [store EXCEPT !["access_token"] = token, !["token_type"] = tokenType]

\* ClearSession without its second removeItem.
ClearSessionTokenOnly(store) ==
    [store EXCEPT !["access_token"] = null]

\* localStorage.removeItem of both entries (lines 141-142).
ClearSession(store) ==
    [store EXCEPT !["access_token"] = null, !["token_type"] = null]

\* MaxAge with the week for every login.
MaxAgeAlwaysWeek(rememberMe) == 604800

\* max-age=${rememberMe ? 604800 : 86400} (line 39).
MaxAge(rememberMe) == IF rememberMe THEN 604800 ELSE 86400

\* document.cookie = `access_token=Bearer ${token}; path=/; max-age=...;
\* SameSite=Lax` (line 39): the jar holds this one access_token cookie.
LoginCookie(token, rememberMe) ==
    {[name |-> "access_token", value |-> "Bearer " \o token, path |-> "/",
      maxAge |-> MaxAge(rememberMe), sameSite |-> "Lax"]}

\* ExpireCookie that leaves the jar as it is.
ExpireCookieKeeps(jar) == jar

\* document.cookie = 'access_token=; path=/; expires=Thu, 01 Jan 1970 ...'
\* (line 143): an expiry in the past removes the cookie of that name and path.
ExpireCookie(jar) == {c \in jar : ~(c.name = "access_token" /\ c.path = "/")}

\* `${tokenType} ${token}` (lines 164, 180, 195).
AuthValue(tokenType, token) == tokenType \o " " \o token

----------------------------------------------------------------------------
(* The two delivery surfaces. *)

\* IsApi with the prefix written without its closing slash.
IsApiNoSlash(url) == StartsWith(url, "/api")

\* url.toString().startsWith('/api/') (lines 157, 175).
IsApi(url) == StartsWith(url, "/api/")

\* The wrapped window.fetch (lines 155-170): the header map handed to the
\* original fetch. options.headers is the caller's object, written in place;
\* a missing options.headers is the empty map, which `|| {}` makes it.
FetchHeaders(url, hdrs, store) ==
    IF IsApi(url)
    THEN LET token == store["access_token"]
             tokenType == store["token_type"]
         IN  IF Truthy(token) /\ Truthy(tokenType)
             THEN IF ~Truthy(Get(hdrs, "Authorization"))
                  THEN Put(hdrs, "Authorization", AuthValue(tokenType, token))
                  ELSE hdrs
             ELSE hdrs
    ELSE hdrs

\* The htmx:configRequest listener (lines 173-183): evt.detail.headers after it.
HtmxHeaders(path, hdrs, store) ==
    IF IsApi(path)
    THEN LET token == store["access_token"]
             tokenType == store["token_type"]
         IN  IF Truthy(token) /\ Truthy(tokenType)
             THEN Put(hdrs, "Authorization", AuthValue(tokenType, token))
             ELSE hdrs
    ELSE hdrs

\* The header map the second DOMContentLoaded listener builds (lines 187-196).
CapturedHeaders(store) ==
    LET token == store["access_token"]
        tokenType == store["token_type"]
    IN  IF Truthy(token) /\ Truthy(tokenType)
        THEN Put(JsonHeaders, "Authorization", AuthValue(tokenType, token))
        ELSE JsonHeaders

----------------------------------------------------------------------------
(* Requests in flight. *)

\* A request handed to the original fetch (or sent by htmx) whose response has
\* not been handled: who sent it, what went out, and what its continuation
\* closes over (the button and its label, the remember-me flag, the amount).
NoEnv == [button |-> null, originalText |-> null, remember_me |-> null,
          rememberMe |-> FALSE, amount |-> null]

Request(from, url, hdrs, env) ==
    [from |-> from, url |-> url, headers |-> hdrs, env |-> env]

CanSend == BagCardinality(net) < MaxInFlight

Send(r) == net' = net (+) SetToBag({r})

Settle(r) == net' = net (-) SetToBag({r})

InFlight(from) == {r \in BagToSet(net) : r.from = from}

\* What a request can come to: the fetch promise rejects (transport failure),
\* or a response arrives with a status and a body that response.json() parses
\* (json) or rejects.
Rejected == [kind |-> "reject", status |-> 0, json |-> FALSE, token |-> null,
             tokenType |-> null, detail |-> null, cheque |-> null,
             message |-> null]

Malformed == {[Rejected EXCEPT !.kind = "response", !.status = s] : s \in Statuses}

LoginOutcomes ==
    {Rejected} \cup Malformed
    \cup {[Rejected EXCEPT !.kind = "response", !.status = s, !.json = TRUE,
                           !.token = t, !.tokenType = y] :
            s \in {200, 201}, t \in Tokens, y \in TokenTypes}
    \cup {[Rejected EXCEPT !.kind = "response", !.status = 400, !.json = TRUE,
                           !.detail = d] : d \in Details}

\* Responses of the endpoints that answer with a status and, on error, a detail.
PlainOutcomes ==
    {Rejected} \cup Malformed
    \cup {[Rejected EXCEPT !.kind = "response", !.status = s, !.json = TRUE] :
            s \in {200, 201}}
    \cup {[Rejected EXCEPT !.kind = "response", !.status = 400, !.json = TRUE,
                           !.detail = d] : d \in Details}

DepositOutcomes ==
    {Rejected} \cup Malformed
    \cup {[Rejected EXCEPT !.kind = "response", !.status = 200, !.json = TRUE,
                           !.cheque = c] : c \in Cheques}
    \cup {[Rejected EXCEPT !.kind = "response", !.status = 400, !.json = TRUE,
                           !.detail = d] : d \in Details}

\* The handler reaches its catch block: fetch rejected, or response.json() did.
Throws(o) == o.kind = "reject" \/ ~o.json

----------------------------------------------------------------------------
(* The document. *)

\* The page's templates render the elements the script looks up by id: the
\* message regions of the forms and the container of the banners.
PageHolds(id) ==
    id \in {"login-error", "register-error", "register-success",
            "notification-container"}

\* An inline message region: its text, and whether the class hidden is on it.
Hidden == [textContent |-> "", hidden |-> TRUE]
Shown(text) == [textContent |-> text, hidden |-> FALSE]

\* if (element) { element.textContent = ...; element.classList... }
\* (lines 16-19, 45-48, 52-55, 74-77, 81-84, 103-106, 113-116, 120-123).
Write(id, region, value) == IF PageHolds(id) THEN value ELSE region

\* The deposit form's submit button as the page renders it: the state the
\* error branches restore (lines 364-367, 374-377).
InitialSubmit ==
    [disabled |-> FALSE, textContent |-> "Request Deposit",
     classList |-> {"bg-bank-success", "hover:bg-green-600"}]

\* The admin buttons of the page, [data-deposit-action] and
\* [data-withdrawal-action], with their data-* attributes and labels: the
\* approve and the reject button of deposit 42 and of withdrawal 7. The text
\* of an element is what stands between its tags, indentation included.
DepositButtons == {"deposit-42-approved", "deposit-42-rejected"}
WithdrawalButtons == {"withdraw-7-approved", "withdraw-7-rejected"}
Buttons == DepositButtons \cup WithdrawalButtons

Dataset(b) ==
    CASE b = "deposit-42-approved"  -> [id |-> "42", action |-> "approved", text |-> "Approve"]
      [] b = "deposit-42-rejected"  -> [id |-> "42", action |-> "rejected", text |-> " Reject "]
      [] b = "withdraw-7-approved"  -> [id |-> "7", action |-> "approved", text |-> " Approve "]
      [] b = "withdraw-7-rejected"  -> [id |-> "7", action |-> "rejected", text |-> "Reject"]

InitialButtons ==
    [b \in Buttons |-> [disabled |-> FALSE, textContent |-> Dataset(b).text]]

\* The fields of #transfer-form and #deposit-form, empty as rendered.
BlankForms == [transfer |-> [receiver_username |-> "", amount |-> ""],
               deposit |-> [amount |-> ""]]

\* #deposit-result as rendered: empty.
NoResult == [cheque |-> null, amount |-> null, href |-> null]

\* No use of a surface by other code yet.
NoCall == [via |-> null, url |-> null, supplied |-> NoHeaders,
           store |-> NoSession, headers |-> NoHeaders]

\* window.showNotification (lines 213-271): a banner is appended to
\* #notification-container, when the page holds one.
CanNotify == Len(notifications) < MaxNotifications
ShowNotification(message, type) ==
    notifications' = IF PageHolds("notification-container")
                     THEN Append(notifications, [message |-> message, type |-> type])
                     ELSE notifications

\* setTimeout(() => navigate, delay) (lines 108, 297, 357, 410, 457).
CanSetTimeout == BagCardinality(timers) < MaxTimers
\* SetTimeout that sets its timer two times over.
SetTimeoutTwice(to, delay) ==
    timers' = timers (+) SetToBag({[to |-> to, delay |-> delay]})
                     (+) SetToBag({[to |-> to, delay |-> delay]})
SetTimeout(to, delay) == timers' = timers (+) SetToBag({[to |-> to, delay |-> delay]})

\* Both DOMContentLoaded listeners on a fresh document (lines 1-184, 185-521):
\* the elements are as the page renders them, nothing is in flight, and the
\* header map is built from the storage.
LoadPage ==
    /\ headers' = CapturedHeaders(localStorage)
    /\ loginError' = Hidden
    /\ registerError' = Hidden
    /\ registerSuccess' = Hidden
    /\ submitButton' = InitialSubmit
    /\ depositResult' = NoResult
    /\ buttons' = InitialButtons
    /\ notifications' = <<>>
    /\ timers' = EmptyBag
    /\ net' = EmptyBag
    /\ forms' = BlankForms

\* A visit starts with no session, or with the session an earlier login left.
Init ==
    /\ \E t \in Tokens \cup {null}, y \in TokenTypes, m \in BOOLEAN :
          IF t = null
          THEN localStorage = NoSession /\ cookies = {}
          ELSE /\ localStorage = SaveSession(NoSession, t, y)
               /\ cookies = LoginCookie(t, m)
    /\ navigation = null
    /\ headers = CapturedHeaders(localStorage)
    /\ loginError = Hidden
    /\ registerError = Hidden
    /\ registerSuccess = Hidden
    /\ submitButton = InitialSubmit
    /\ depositResult = NoResult
    /\ buttons = InitialButtons
    /\ notifications = <<>>
    /\ timers = EmptyBag
    /\ net = EmptyBag
    /\ call = NoCall
    /\ forms = BlankForms

\* The navigation the document issued completes: the next document loads.
PageLoad ==
    /\ navigation # null
    /\ navigation' = null
    /\ LoadPage
    /\ UNCHANGED <<call, localStorage, cookies>>

\* The max-age the login gave the cookie (line 39) runs out: the browser drops
\* the cookie. The storage entries have no expiry and stay.
CookieLapse ==
    /\ cookies # {}
    /\ cookies' = {}
    /\ UNCHANGED <<call, forms, localStorage, navigation, headers, loginError,
                   registerError, registerSuccess, submitButton, depositResult,
                   buttons, notifications, timers, net>>

\* A pending timer fires: window.location.href = '/login' (line 109) or
\* window.location.reload() (lines 298, 358, 411, 458).
TimerFire(t) ==
    /\ BagIn(t, timers)
    /\ timers' = timers (-) SetToBag({t})
    /\ navigation' = t.to
    /\ UNCHANGED <<call, forms, localStorage, cookies, headers, loginError, registerError,
                   registerSuccess, submitButton, depositResult, buttons,
                   notifications, net>>

\* A banner leaves: its 5 s timer ran out (lines 265-270) or its close button
\* was clicked (lines 255-260).
NotificationRemove(i) ==
    /\ i \in 1..Len(notifications)
    /\ notifications' = SubSeq(notifications, 1, i - 1)
                          \o SubSeq(notifications, i + 1, Len(notifications))
    /\ UNCHANGED <<call, forms, localStorage, cookies, navigation, headers, loginError,
                   registerError, registerSuccess, submitButton, depositResult,
                   buttons, timers, net>>

----------------------------------------------------------------------------
(* Login (lines 5-57). *)

\* formData.get('remember_me'): a checkbox that is checked gives its value,
\* 'on' when the markup names none; one that is unchecked or missing gives null.
RememberMeFields == {null, "on"}

\* formData.get('remember_me') === 'on' (line 12).
RememberMe(field) == field = "on"

\* submit of #login-form, up to the await of fetch (lines 6-29).
LoginSubmit(field) ==
    /\ CanSend
    /\ loginError' = Write("login-error", loginError, Hidden)
    /\ Send(Request("login", "/auth/login",
                    FetchHeaders("/auth/login", JsonHeaders, localStorage),
                    [NoEnv EXCEPT !.remember_me = field,
                                  !.rememberMe = RememberMe(field)]))
    /\ UNCHANGED <<call, forms, localStorage, cookies, navigation, headers, registerError,
                   registerSuccess, submitButton, depositResult, buttons,
                   notifications, timers>>

\* The rest of the handler (lines 31-56).
LoginResponse(r, o) ==
    /\ r \in InFlight("login")
    /\ Settle(r)
    /\ IF Throws(o)
       THEN /\ loginError' = Write("login-error", loginError,
                                   Shown("An error occurred during login"))
            /\ UNCHANGED <<localStorage, cookies, navigation>>
       ELSE IF Ok(o.status)
       THEN /\ localStorage' = SaveSession(localStorage, o.token, o.tokenType)
            /\ cookies' = ExpireCookie(cookies) \cup LoginCookie(o.token, r.env.rememberMe)
            /\ navigation' = "/dashboard"
            /\ UNCHANGED loginError
       ELSE /\ loginError' = Write("login-error", loginError,
                                   Shown(OrElse(o.detail, "Login failed")))
            /\ UNCHANGED <<localStorage, cookies, navigation>>
    /\ UNCHANGED <<call, forms, headers, registerError, registerSuccess, submitButton,
                   depositResult, buttons, notifications, timers>>

----------------------------------------------------------------------------
(* Logout (lines 131-150). *)

\* click on #logout-button, up to the await of fetch (lines 132-138).
LogoutClick ==
    /\ CanSend
    /\ Send(Request("logout", "/auth/logout",
                    FetchHeaders("/auth/logout", NoHeaders, localStorage),
                    NoEnv))
    /\ UNCHANGED <<call, forms, localStorage, cookies, navigation, headers, loginError,
                   registerError, registerSuccess, submitButton, depositResult,
                   buttons, notifications, timers>>

\* LogoutResponse with the clearing under `if (response.ok)`.
LogoutResponseIfOk(r, o) ==
    /\ r \in InFlight("logout")
    /\ Settle(r)
    /\ IF o.kind = "reject" \/ ~Ok(o.status)
       THEN UNCHANGED <<localStorage, cookies, navigation>>
       ELSE /\ localStorage' = ClearSession(localStorage)
            /\ cookies' = ExpireCookie(cookies)
            /\ navigation' = "/login"
    /\ UNCHANGED <<call, forms, headers, loginError, registerError, registerSuccess,
                   submitButton, depositResult, buttons, notifications, timers>>

\* The rest of the handler (lines 140-149): the response is not read, and a
\* rejected fetch skips to the catch block, which logs.
LogoutResponse(r, o) ==
    /\ r \in InFlight("logout")
    /\ Settle(r)
    /\ IF o.kind = "reject"
       THEN UNCHANGED <<localStorage, cookies, navigation>>
       ELSE /\ localStorage' = ClearSession(localStorage)
            /\ cookies' = ExpireCookie(cookies)
            /\ navigation' = "/login"
    /\ UNCHANGED <<call, forms, headers, loginError, registerError, registerSuccess,
                   submitButton, depositResult, buttons, notifications, timers>>

----------------------------------------------------------------------------
(* Registration (lines 63-125). *)

\* What the user types into password and password_confirm.
Passwords == {"pw1", "pw2"}

\* RegisterSubmit without the return of line 85: the mismatch is shown and the
\* request is sent all the same.
RegisterSubmitNoReturn(password, passwordConfirm) ==
    /\ CanSend
    /\ registerError' = Write("register-error", registerError,
                               IF password # passwordConfirm
                               THEN Shown("Passwords do not match")
                               ELSE Hidden)
    /\ Send(Request("register", "/auth/register",
                    FetchHeaders("/auth/register", JsonHeaders, localStorage),
                    NoEnv))
    /\ UNCHANGED <<call, forms, localStorage, cookies, navigation, headers,
                   loginError, registerSuccess, submitButton, depositResult,
                   buttons, notifications, timers>>

\* submit of #register-form, up to the return of line 85 or the await of
\* fetch (lines 64-96).
RegisterSubmit(password, passwordConfirm) ==
    /\ IF password # passwordConfirm
       THEN /\ registerError' = Write("register-error", registerError,
                                      Shown("Passwords do not match"))
            /\ UNCHANGED net
       ELSE /\ CanSend
            /\ registerError' = Write("register-error", registerError, Hidden)
            /\ Send(Request("register", "/auth/register",
                            FetchHeaders("/auth/register", JsonHeaders, localStorage),
                            NoEnv))
    /\ UNCHANGED <<call, forms, localStorage, cookies, navigation, headers, loginError,
                   registerSuccess, submitButton, depositResult, buttons,
                   notifications, timers>>

\* The rest of the handler (lines 98-124).
RegisterResponse(r, o) ==
    /\ r \in InFlight("register")
    /\ Settle(r)
    /\ IF Throws(o)
       THEN /\ registerError' = Write("register-error", registerError,
                                      Shown("An error occurred during registration"))
            /\ UNCHANGED <<registerSuccess, timers>>
       ELSE IF Ok(o.status)
       THEN /\ CanSetTimeout
            /\ registerSuccess' =
                  Write("register-success", registerSuccess,
                        Shown("Registration successful! Redirecting to login..."))
            /\ SetTimeout("/login", 2000)
            /\ UNCHANGED registerError
       ELSE /\ registerError' = Write("register-error", registerError,
                                      Shown(OrElse(o.detail, "Registration failed")))
            /\ UNCHANGED <<registerSuccess, timers>>
    /\ UNCHANGED <<call, forms, localStorage, cookies, navigation, headers, loginError,
                   submitButton, depositResult, buttons, notifications>>

----------------------------------------------------------------------------
(* The surfaces as other code of the page uses them. *)

\* Page code other than the handlers of this script calls window.fetch.
ScriptFetch(url, hdrs) ==
    /\ call' = [via |-> "fetch", url |-> url, supplied |-> hdrs,
                store |-> localStorage,
                headers |-> FetchHeaders(url, hdrs, localStorage)]
    /\ UNCHANGED <<localStorage, cookies, navigation, headers, loginError,
                   registerError, registerSuccess, submitButton, depositResult,
                   buttons, notifications, timers, net, forms>>

\* htmx is about to send a request with the header map hdrs and raises
\* htmx:configRequest (lines 173-183).
HtmxConfigRequest(path, hdrs) ==
    /\ call' = [via |-> "htmx", url |-> path, supplied |-> hdrs,
                store |-> localStorage,
                headers |-> HtmxHeaders(path, hdrs, localStorage)]
    /\ UNCHANGED <<localStorage, cookies, navigation, headers, loginError,
                   registerError, registerSuccess, submitButton, depositResult,
                   buttons, notifications, timers, net, forms>>

\* The swap targets of the page's htmx elements.
Targets == {"quick-result", "history"}

\* The responses htmx reports: evt.detail.xhr, with its status and a
\* responseText that JSON.parse takes (json) or throws on.
HtmxResponses ==
    Malformed
    \cup {[Rejected EXCEPT !.kind = "response", !.status = s, !.json = TRUE,
                           !.message = m] :
            s \in {200, 201}, m \in {null, "Done"}}
    \cup {[Rejected EXCEPT !.kind = "response", !.status = 400, !.json = TRUE,
                           !.detail = d] : d \in Details}

\* The htmx:afterSwap listener (lines 477-490); htmx swaps, and raises the
\* event for, a response with a success status.
HtmxAfterSwap(target, o) ==
    /\ Ok(o.status)
    /\ IF /\ target = "quick-result"
          /\ o.status = 200 \/ o.status = 201
          /\ o.json
          /\ Truthy(o.message)
       THEN /\ CanNotify
            /\ ShowNotification(o.message, "success")
       ELSE UNCHANGED notifications
    /\ UNCHANGED <<call, forms, localStorage, cookies, navigation, headers,
                   loginError, registerError, registerSuccess, submitButton,
                   depositResult, buttons, timers, net>>

\* The htmx:responseError listener (lines 492-503); htmx raises the event for
\* a response with an error status.
HtmxResponseError(o) ==
    /\ ~Ok(o.status)
    /\ CanNotify
    /\ IF o.json /\ Truthy(o.detail)
       THEN ShowNotification(o.detail, "error")
       ELSE ShowNotification("An error occurred", "error")
    /\ UNCHANGED <<call, forms, localStorage, cookies, navigation, headers,
                   loginError, registerError, registerSuccess, submitButton,
                   depositResult, buttons, timers, net>>

----------------------------------------------------------------------------
(* Transfer (lines 276-307). *)

\* What the user types into the transfer form.
TransferInputs == {[receiver_username |-> "bob", amount |-> "50"]}

TransferInput(f) ==
    /\ forms' = [forms EXCEPT !.transfer = f]
    /\ UNCHANGED <<call, localStorage, cookies, navigation, headers, loginError,
                   registerError, registerSuccess, submitButton, depositResult,
                   buttons, notifications, timers, net>>

\* submit of #transfer-form, up to the await of fetch (lines 277-288). The
\* options carry the captured header map itself, so what the wrapper writes
\* into options.headers stays in it.
TransferSubmit ==
    /\ CanSend
    /\ headers' = FetchHeaders("/api/transfer", headers, localStorage)
    /\ Send(Request("transfer", "/api/transfer", headers', NoEnv))
    /\ UNCHANGED <<call, forms, localStorage, cookies, navigation, loginError,
                   registerError, registerSuccess, submitButton, depositResult,
                   buttons, notifications, timers>>

\* TransferResponse with the error branch dropping the session.
TransferResponseDropsSession(r, o) ==
    /\ r \in InFlight("transfer")
    /\ Settle(r)
    /\ CanNotify
    /\ IF Throws(o)
       THEN /\ ShowNotification("An error occurred during transfer", "error")
            /\ UNCHANGED <<forms, timers, localStorage, cookies>>
       ELSE IF Ok(o.status)
       THEN /\ CanSetTimeout
            /\ ShowNotification("Transfer successful!", "success")
            /\ forms' = [forms EXCEPT !.transfer = BlankForms.transfer]
            /\ SetTimeout("reload", 2000)
            /\ UNCHANGED <<localStorage, cookies>>
       ELSE /\ ShowNotification(OrElse(o.detail, "Transfer failed"), "error")
            /\ localStorage' = ClearSession(localStorage)
            /\ cookies' = ExpireCookie(cookies)
            /\ UNCHANGED <<forms, timers>>
    /\ UNCHANGED <<call, navigation, headers, loginError,
                   registerError, registerSuccess, submitButton, depositResult,
                   buttons>>

\* The rest of the handler (lines 290-306).
TransferResponse(r, o) ==
    /\ r \in InFlight("transfer")
    /\ Settle(r)
    /\ CanNotify
    /\ IF Throws(o)
       THEN /\ ShowNotification("An error occurred during transfer", "error")
            /\ UNCHANGED <<forms, timers>>
       ELSE IF Ok(o.status)
       THEN /\ CanSetTimeout
            /\ ShowNotification("Transfer successful!", "success")
            /\ forms' = [forms EXCEPT !.transfer = BlankForms.transfer]
            /\ SetTimeout("reload", 2000)
       ELSE /\ ShowNotification(OrElse(o.detail, "Transfer failed"), "error")
            /\ UNCHANGED <<forms, timers>>
    /\ UNCHANGED <<call, localStorage, cookies, navigation, headers, loginError,
                   registerError, registerSuccess, submitButton, depositResult,
                   buttons>>

----------------------------------------------------------------------------
(* Deposit (lines 313-379). *)

\* What the user types into the deposit form.
DepositInputs == {[amount |-> "250"]}

DepositInput(f) ==
    /\ forms' = [forms EXCEPT !.deposit = f]
    /\ UNCHANGED <<call, localStorage, cookies, navigation, headers, loginError,
                   registerError, registerSuccess, submitButton, depositResult,
                   buttons, notifications, timers, net>>

\* window.formatCurrency (lines 199-204) of parseFloat of the amount field.
FormatCurrency(amount) ==
    CASE amount = "250" -> "$250.00"
      [] amount = ""    -> "$NaN"

\* Lines 318-321.
DisableSubmit(b) ==
    [disabled |-> TRUE, textContent |-> "Processing...",
     classList |-> (b.classList \cup {"bg-gray-400"})
                     \ {"bg-bank-success", "hover:bg-green-600"}]

\* Lines 364-367 and 374-377.
EnableSubmit(b) ==
    [disabled |-> FALSE, textContent |-> "Request Deposit",
     classList |-> (b.classList \ {"bg-gray-400"})
                     \cup {"bg-bank-success", "hover:bg-green-600"}]

\* submit of #deposit-form, up to the await of fetch (lines 314-331). The
\* handler does not look at the button before it disables it.
DepositSubmit ==
    /\ CanSend
    /\ submitButton' = DisableSubmit(submitButton)
    /\ headers' = FetchHeaders("/api/deposit", headers, localStorage)
    /\ Send(Request("deposit", "/api/deposit", headers',
                    [NoEnv EXCEPT !.amount = forms.deposit.amount]))
    /\ UNCHANGED <<call, forms, localStorage, cookies, navigation, loginError,
                   registerError, registerSuccess, depositResult, buttons,
                   notifications, timers>>

\* DepositSucceeded without the setTimeout of lines 357-359.
DepositSucceededNoReload(r, o) ==
    /\ ShowNotification("Deposit request created successfully!", "success")
    /\ depositResult' = [cheque |-> o.cheque,
                         amount |-> FormatCurrency(r.env.amount),
                         href |-> "/api/deposit/" \o o.cheque \o "/pdf"]
    /\ forms' = [forms EXCEPT !.deposit = BlankForms.deposit]
    /\ UNCHANGED <<submitButton, timers>>

\* The success branch (lines 336-359).
DepositSucceeded(r, o) ==
    /\ CanSetTimeout
    /\ ShowNotification("Deposit request created successfully!", "success")
    /\ depositResult' = [cheque |-> o.cheque,
                         amount |-> FormatCurrency(r.env.amount),
                         href |-> "/api/deposit/" \o o.cheque \o "/pdf"]
    /\ forms' = [forms EXCEPT !.deposit = BlankForms.deposit]
    /\ SetTimeout("reload", 3000)
    /\ UNCHANGED submitButton

\* DepositFailed without `submitButton.disabled = false`.
DepositFailedStillDisabled(message) ==
    /\ ShowNotification(message, "error")
    /\ submitButton' = [EnableSubmit(submitButton) EXCEPT !.disabled = TRUE]
    /\ UNCHANGED <<depositResult, forms, timers>>

\* The error branch (lines 361-367) and the catch block (lines 370-377).
DepositFailed(message) ==
    /\ ShowNotification(message, "error")
    /\ submitButton' = EnableSubmit(submitButton)
    /\ UNCHANGED <<depositResult, forms, timers>>

\* The rest of the handler (lines 333-378).
DepositResponse(r, o) ==
    /\ r \in InFlight("deposit")
    /\ Settle(r)
    /\ CanNotify
    /\ IF Throws(o)
       THEN DepositFailed("An error occurred during deposit request")
       ELSE IF Ok(o.status)
       THEN DepositSucceeded(r, o)
       ELSE DepositFailed(OrElse(o.detail, "Deposit request failed"))
    /\ UNCHANGED <<call, localStorage, cookies, navigation, headers, loginError,
                   registerError, registerSuccess, buttons>>

----------------------------------------------------------------------------
(* The admin buttons (lines 385-426 and 432-473). *)

\* this.disabled = true; this.textContent = 'Processing...' (lines 390-392).
DisableButton(b) ==
    [buttons EXCEPT ![b] = [disabled |-> TRUE, textContent |-> "Processing..."]]

\* EnableButton without `this.textContent = originalText`.
EnableButtonKeepText(b, originalText) ==
    [buttons EXCEPT ![b] = [disabled |-> FALSE, textContent |-> buttons[b].textContent]]

\* this.disabled = false; this.textContent = originalText (lines 416-417).
EnableButton(b, originalText) ==
    [buttons EXCEPT ![b] = [disabled |-> FALSE, textContent |-> originalText]]

\* DepositButtonClick with one guard for all the buttons: a click does nothing
\* while any button is disabled.
DepositButtonClickSharedGuard(b) ==
    IF \E c \in Buttons : buttons[c].disabled
    THEN UNCHANGED vars
    ELSE /\ CanSend
         /\ buttons' = DisableButton(b)
         /\ headers' = FetchHeaders("/api/admin/deposit/" \o Dataset(b).id \o "/status",
                                    headers, localStorage)
         /\ Send(Request("depositButton",
                         "/api/admin/deposit/" \o Dataset(b).id \o "/status",
                         headers',
                         [NoEnv EXCEPT !.button = b,
                                       !.originalText = Trim(buttons[b].textContent)]))
         /\ UNCHANGED <<call, forms, localStorage, cookies, navigation,
                        loginError, registerError, registerSuccess, submitButton,
                        depositResult, notifications, timers>>

\* DepositButtonClick without the guard of line 387.
DepositButtonClickNoGuard(b) ==
    /\ CanSend
    /\ buttons' = DisableButton(b)
    /\ headers' = FetchHeaders("/api/admin/deposit/" \o Dataset(b).id \o "/status",
                               headers, localStorage)
    /\ Send(Request("depositButton",
                    "/api/admin/deposit/" \o Dataset(b).id \o "/status",
                    headers',
                    [NoEnv EXCEPT !.button = b,
                                  !.originalText = Trim(buttons[b].textContent)]))
    /\ UNCHANGED <<call, forms, localStorage, cookies, navigation,
                   loginError, registerError, registerSuccess, submitButton,
                   depositResult, notifications, timers>>

\* click on a [data-deposit-action] button, up to the return of line 387 or
\* the await of fetch (lines 385-402).
DepositButtonClick(b) ==
    IF buttons[b].disabled
    THEN UNCHANGED vars
    ELSE /\ CanSend
         /\ buttons' = DisableButton(b)
         /\ headers' = FetchHeaders("/api/admin/deposit/" \o Dataset(b).id \o "/status",
                                    headers, localStorage)
         /\ Send(Request("depositButton",
                         "/api/admin/deposit/" \o Dataset(b).id \o "/status",
                         headers',
                         [NoEnv EXCEPT !.button = b,
                                       !.originalText = Trim(buttons[b].textContent)]))
         /\ UNCHANGED <<call, forms, localStorage, cookies, navigation,
                        loginError, registerError, registerSuccess, submitButton,
                        depositResult, notifications, timers>>

\* The rest of the handler (lines 404-425).
DepositButtonResponse(r, o) ==
    /\ r \in InFlight("depositButton")
    /\ Settle(r)
    /\ CanNotify
    /\ LET b == r.env.button
           action == Dataset(b).action
       IN  IF Throws(o)
           THEN /\ ShowNotification("An error occurred while " \o action \o "ing deposit",
                                    "error")
                /\ buttons' = EnableButton(b, r.env.originalText)
                /\ UNCHANGED timers
           ELSE IF Ok(o.status)
           THEN /\ CanSetTimeout
                /\ ShowNotification("Deposit " \o action \o " successfully!", "success")
                /\ SetTimeout("reload", 2000)
                /\ UNCHANGED buttons
           ELSE /\ ShowNotification(OrElse(o.detail, "Failed to " \o action \o " deposit"),
                                    "error")
                /\ buttons' = EnableButton(b, r.env.originalText)
                /\ UNCHANGED timers
    /\ UNCHANGED <<call, forms, localStorage, cookies, navigation, headers,
                   loginError, registerError, registerSuccess, submitButton,
                   depositResult>>

\* click on a [data-withdrawal-action] button (lines 432-449).
WithdrawalButtonClick(b) ==
    IF buttons[b].disabled
    THEN UNCHANGED vars
    ELSE /\ CanSend
         /\ buttons' = DisableButton(b)
         /\ headers' = FetchHeaders("/api/admin/withdraw/" \o Dataset(b).id \o "/status",
                                    headers, localStorage)
         /\ Send(Request("withdrawalButton",
                         "/api/admin/withdraw/" \o Dataset(b).id \o "/status",
                         headers',
                         [NoEnv EXCEPT !.button = b,
                                       !.originalText = Trim(buttons[b].textContent)]))
         /\ UNCHANGED <<call, forms, localStorage, cookies, navigation,
                        loginError, registerError, registerSuccess, submitButton,
                        depositResult, notifications, timers>>

\* The rest of the handler (lines 451-472).
WithdrawalButtonResponse(r, o) ==
    /\ r \in InFlight("withdrawalButton")
    /\ Settle(r)
    /\ CanNotify
    /\ LET b == r.env.button
           action == Dataset(b).action
       IN  IF Throws(o)
           THEN /\ ShowNotification("An error occurred while " \o action \o "ing withdrawal",
                                    "error")
                /\ buttons' = EnableButton(b, r.env.originalText)
                /\ UNCHANGED timers
           ELSE IF Ok(o.status)
           THEN /\ CanSetTimeout
                /\ ShowNotification("Withdrawal " \o action \o " successfully!", "success")
                /\ SetTimeout("reload", 2000)
                /\ UNCHANGED buttons
           ELSE /\ ShowNotification(OrElse(o.detail, "Failed to " \o action \o " withdrawal"),
                                    "error")
                /\ buttons' = EnableButton(b, r.env.originalText)
                /\ UNCHANGED timers
    /\ UNCHANGED <<call, forms, localStorage, cookies, navigation, headers,
                   loginError, registerError, registerSuccess, submitButton,
                   depositResult>>

----------------------------------------------------------------------------
(* Specifications. The script attaches a handler only to the elements the  *)
(* page holds (lines 4, 62, 130, 275, 312, 383, 430), so a page is the set *)
(* of handlers its elements bring; the session store is shared by all.     *)

\* A pending timer fires.
Timers == \E t \in BagToSet(timers) : TimerFire(t)

\* A banner leaves.
Banners == \E i \in 1..MaxNotifications : NotificationRemove(i)

Login ==
    \/ \E f \in RememberMeFields : LoginSubmit(f)
    \/ \E r \in BagToSet(net), o \in LoginOutcomes : LoginResponse(r, o)

Logout ==
    \/ LogoutClick
    \/ \E r \in BagToSet(net), o \in PlainOutcomes : LogoutResponse(r, o)

Register ==
    \/ \E p \in Passwords, c \in Passwords : RegisterSubmit(p, c)
    \/ \E r \in BagToSet(net), o \in PlainOutcomes : RegisterResponse(r, o)

Surfaces ==
    \/ \E u \in Urls, h \in CallerHeaders : ScriptFetch(u, h)
    \/ \E u \in Urls, h \in CallerHeaders : HtmxConfigRequest(u, h)
    \/ \E t \in Targets, o \in HtmxResponses : HtmxAfterSwap(t, o)
    \/ \E o \in HtmxResponses : HtmxResponseError(o)

Transfer ==
    \/ \E f \in TransferInputs : TransferInput(f)
    \/ TransferSubmit
    \/ \E r \in BagToSet(net), o \in PlainOutcomes : TransferResponse(r, o)

Deposit ==
    \/ \E f \in DepositInputs : DepositInput(f)
    \/ DepositSubmit
    \/ \E r \in BagToSet(net), o \in DepositOutcomes : DepositResponse(r, o)

Admin ==
    \/ \E b \in DepositButtons : DepositButtonClick(b)
    \/ \E r \in BagToSet(net), o \in PlainOutcomes : DepositButtonResponse(r, o)
    \/ \E b \in WithdrawalButtons : WithdrawalButtonClick(b)
    \/ \E r \in BagToSet(net), o \in PlainOutcomes : WithdrawalButtonResponse(r, o)

\* The page with the login form and the logout button.
NextSession == PageLoad \/ Login \/ Logout
SpecSession == Init /\ [][NextSession]_vars

\* The same page over the days: the cookie can outlive its max-age.
NextLifetime == NextSession \/ CookieLapse
SpecLifetime == Init /\ [][NextLifetime]_vars

\* The page with the registration form.
NextRegister == PageLoad \/ Timers \/ Register
SpecRegister == Init /\ [][NextRegister]_vars

\* A page whose own code and htmx elements send requests, under every session
\* a visit can start with.
NextSurfaces == Banners \/ Surfaces
SpecSurfaces == Init /\ [][NextSurfaces]_vars

\* A page with the transfer form, the login form and the logout button.
NextTransfer == PageLoad \/ Timers \/ Banners \/ Login \/ Logout \/ Transfer
SpecTransfer == Init /\ [][NextTransfer]_vars

\* The page with the deposit form.
NextDeposit == PageLoad \/ Timers \/ Banners \/ Deposit
SpecDeposit == Init /\ [][NextDeposit]_vars

\* The page with the admin buttons.
NextAdmin == PageLoad \/ Timers \/ Banners \/ Admin
SpecAdmin == Init /\ [][NextAdmin]_vars

\* The elements of one feature are as rendered and none of its requests is in
\* flight: nothing on the page has used the feature since the page loaded.
SessionIdle ==
    loginError = Hidden /\ InFlight("login") \cup InFlight("logout") = {}
RegisterIdle ==
    registerError = Hidden /\ registerSuccess = Hidden /\ InFlight("register") = {}
SurfacesIdle == call = NoCall
TransferIdle ==
    forms.transfer = BlankForms.transfer /\ InFlight("transfer") = {}
DepositIdle ==
    /\ forms.deposit = BlankForms.deposit
    /\ submitButton = InitialSubmit
    /\ depositResult = NoResult
    /\ InFlight("deposit") = {}
AdminIdle ==
    /\ buttons = InitialButtons
    /\ InFlight("depositButton") \cup InFlight("withdrawalButton") = {}

\* A feature runs while all the others are idle.
OthersIdle(feature) ==
    /\ feature = "session" \/ SessionIdle
    /\ feature = "register" \/ RegisterIdle
    /\ feature = "transfer" \/ TransferIdle
    /\ feature = "deposit" \/ DepositIdle
    /\ feature = "admin" \/ AdminIdle
    /\ feature = "surfaces" \/ SurfacesIdle

\* The pages of the application, one feature at work at a time: the session
\* the login and the logout leave is what the other features find.
NextPages ==
    \/ PageLoad \/ Timers \/ Banners
    \/ OthersIdle("session") /\ (Login \/ Logout)
    \/ OthersIdle("register") /\ Register
    \/ OthersIdle("transfer") /\ Transfer
    \/ OthersIdle("deposit") /\ Deposit
    \/ OthersIdle("admin") /\ Admin
    \/ OthersIdle("surfaces") /\ Surfaces
SpecPages == Init /\ [][NextPages]_vars

\* A page with every element.
Next == PageLoad \/ Timers \/ Banners \/ Login \/ Logout \/ Register
          \/ Surfaces \/ Transfer \/ Deposit \/ Admin
Spec == Init /\ [][Next]_vars

\* The deposit page under the scheduling the browser gives: a timer that is
\* due runs, and a navigation that was issued completes. No request is owed
\* an answer.
FairDeposit == SpecDeposit /\ WF_vars(Timers) /\ WF_vars(PageLoad)

----------------------------------------------------------------------------
(* The claims. *)

\* A path that begins with /api/.
Protected(url) == StartsWith(url, "/api/")

\* Both storage entries are there.
SessionExists(store) ==
    store["access_token"] # null /\ store["token_type"] # null

\* The requests a step puts in flight.
NewRequests == {r \in BagToSet(net') : CopiesIn(r, net') > CopiesIn(r, net)}

\* The requests of an admin button that are in flight, counted.
Outstanding(b) ==
    BagCardinality([r \in {q \in BagToSet(net) : q.env.button = b} |-> net[r]])

\* C1: whatever the POST /auth/logout call comes to (any response, or a
\* rejected fetch), the logout handler ends with both storage entries removed,
\* the access_token cookie expired and the navigation to /login issued.
C1_LogoutAlwaysLocallyEffective ==
    [][\A r \in InFlight("logout"), o \in PlainOutcomes :
          LogoutResponse(r, o) =>
              /\ localStorage' = NoSession
              /\ cookies' = {}
              /\ navigation' = "/login"]_vars

\* C2: on both surfaces, a request to an /api/ path whose header map holds an
\* Authorization value goes out with that value, whatever the storage holds.
C2_CallerAuthorizationKept ==
    (/\ call.via # null
     /\ Protected(call.url)
     /\ "Authorization" \in DOMAIN call.supplied)
        => Get(call.headers, "Authorization") = call.supplied["Authorization"]

\* C3: a request to an /api/ path that a handler issues while a session exists
\* carries Authorization equal to '<token_type> <access_token>' of the storage
\* at that moment.
C3_ApiRequestsCarryCurrentSession ==
    [][\A r \in NewRequests :
          (Protected(r.url) /\ SessionExists(localStorage)) =>
              Get(r.headers, "Authorization")
                 = AuthValue(localStorage["token_type"], localStorage["access_token"])]_vars

\* C4: a click on a disabled admin button issues no request and changes
\* nothing, and no admin button ever has more than one request in flight.
C4_DisabledButtonSendsNothing ==
    /\ [](\A b \in Buttons : Outstanding(b) <= 1)
    /\ [][\A b \in Buttons :
             buttons[b].disabled =>
                /\ \A r \in NewRequests : r.env.button # b
                /\ (DepositButtonClick(b) \/ WithdrawalButtonClick(b))
                      => UNCHANGED vars]_vars

\* C4's case: a button is disabled with its request in flight, and another
\* request could still be sent.
C4_Witness ==
    \E b \in Buttons : buttons[b].disabled /\ Outstanding(b) = 1 /\ CanSend

\* C5: no POST /api/deposit is issued while the submit control is disabled.
C5_NoDepositWhileDisabled ==
    [][submitButton.disabled => \A r \in NewRequests : r.from # "deposit"]_vars

\* C6: the submit control is disabled only while a deposit request is in
\* flight: once it is disabled with none in flight, after a success as after
\* a failure, it is enabled again later.
C6_SubmitNotDisabledForGood ==
    (submitButton.disabled /\ InFlight("deposit") = {}) ~> ~submitButton.disabled

\* C6's case: a deposit has succeeded, and the control is disabled with
\* nothing in flight.
C6_Witness ==
    /\ submitButton.disabled
    /\ InFlight("deposit") = {}
    /\ depositResult # NoResult

\* C7: when a deposit request fails (an error status, a rejected fetch or a
\* body that does not parse), the submit control is as rendered again (enabled,
\* 'Request Deposit'), an error banner is added and no reload is scheduled.
C7_DepositFailureRestoresSubmit ==
    [][\A r \in InFlight("deposit"), o \in DepositOutcomes :
          (DepositResponse(r, o) /\ (Throws(o) \/ ~Ok(o.status))) =>
              /\ submitButton' = InitialSubmit
              /\ Len(notifications') = Len(notifications) + 1
              /\ notifications'[Len(notifications')].type = "error"
              /\ timers' = timers
              /\ navigation' = navigation]_vars

\* C7's case: a deposit has failed: its error banner is up, and the control is
\* enabled with its label.
C7_Witness ==
    /\ \E i \in 1..Len(notifications) : notifications[i].type = "error"
    /\ ~submitButton.disabled
    /\ submitButton.textContent = "Request Deposit"

\* C8: access_token and token_type are both stored or both absent.
C8_StoredTogether ==
    (localStorage["access_token"] = null) <=> (localStorage["token_type"] = null)

\* C8's case: a login has stored a session over the one the visit began with,
\* and a logout is under way.
C8_Witness ==
    /\ navigation = "/dashboard"
    /\ SessionExists(localStorage)
    /\ headers # CapturedHeaders(localStorage)
    /\ InFlight("logout") # {}

\* C9: a registration whose password and confirmation differ sends no request,
\* shows 'Passwords do not match' and navigates nowhere, now or by a timer.
C9_MismatchSendsNothing ==
    [][\A p \in Passwords, c \in Passwords :
          (p # c /\ RegisterSubmit(p, c)) =>
              /\ net' = net
              /\ registerError' = Shown("Passwords do not match")
              /\ navigation' = navigation
              /\ timers' = timers]_vars

\* C9's case: the mismatch message is shown and nothing is in flight.
C9_Witness ==
    /\ registerError = Shown("Passwords do not match")
    /\ net = EmptyBag

\* C10: on both surfaces, a request to a path that does not begin with /api/
\* goes out with the header map the caller supplied, whatever the storage
\* holds.
C10_OtherPathsUntouched ==
    (call.via # null /\ ~Protected(call.url)) => call.headers = call.supplied

\* C10's case: with a session stored, a request went to a path that begins
\* with /api but not with /api/.
C10_Witness ==
    /\ call.via # null
    /\ ~Protected(call.url)
    /\ StartsWith(call.url, "/api")
    /\ SessionExists(call.store)

\* The label of an admin button: its text without the blank around it.
Label(b) == Trim(Dataset(b).text)

\* The response of the request of button b is handled with outcome o.
ButtonResponse(b, o) ==
    \E r \in BagToSet(net) :
       /\ r.env.button = b
       /\ DepositButtonResponse(r, o) \/ WithdrawalButtonResponse(r, o)

\* C11: an admin button goes idle -> in flight -> idle or disabled for good.
\* A click on an idle button disables it and sends its one request; an error
\* outcome (error status, rejected fetch, unparsable body) brings it back
\* enabled with its label and schedules nothing; a 2xx response leaves it
\* disabled and schedules the reload after 2000 ms; a disabled button changes
\* on nothing but the handling of its response, and the load of a page
\* renders every button anew.
C11_AdminButtonStateMachine ==
    [][\A b \in Buttons :
          /\ \A o \in PlainOutcomes :
                ButtonResponse(b, o) =>
                   IF Throws(o) \/ ~Ok(o.status)
                   THEN /\ buttons'[b] = [disabled |-> FALSE, textContent |-> Label(b)]
                        /\ timers' = timers
                   ELSE /\ buttons[b].disabled
                        /\ buttons'[b] = buttons[b]
                        /\ timers' = timers (+) SetToBag({[to |-> "reload",
                                                           delay |-> 2000]})
          /\ (~buttons[b].disabled /\ buttons'[b] # buttons[b]) =>
                \/ PageLoad
                \/ /\ buttons'[b] = [disabled |-> TRUE,
                                     textContent |-> "Processing..."]
                   /\ \E r \in NewRequests : r.env.button = b
                   /\ Cardinality(NewRequests) = 1
          /\ (buttons[b].disabled /\ buttons'[b] # buttons[b]) =>
                \/ PageLoad
                \/ \E o \in PlainOutcomes : ButtonResponse(b, o)]_vars

\* C11's case: one button is back idle after an error, under its trimmed
\* label, and another is disabled for good, its reload pending.
C11_Witness ==
    /\ \E b \in Buttons :
          /\ ~buttons[b].disabled
          /\ buttons[b].textContent # Dataset(b).text
    /\ \E b \in Buttons :
          /\ buttons[b].disabled
          /\ Outstanding(b) = 0
          /\ timers # EmptyBag

\* The request came to nothing: an error status, a rejected fetch, or a body
\* that does not parse.
Failed(o) == Throws(o) \/ ~Ok(o.status)

\* A step that adds an error banner.
ErrorBannerAdded ==
    /\ Len(notifications') = Len(notifications) + 1
    /\ notifications'[Len(notifications')].type = "error"

\* C12: no failure is silent. When the request of a login, a registration, a
\* logout, a transfer, a deposit or an admin action fails, its handler ends
\* with a message in its inline region or with a new error banner.
C12_NoSilentFailure ==
    [][\A r \in BagToSet(net) :
          /\ \A o \in LoginOutcomes :
                (Failed(o) /\ LoginResponse(r, o)) => ~loginError'.hidden
          /\ \A o \in PlainOutcomes :
                Failed(o) =>
                   /\ RegisterResponse(r, o) => ~registerError'.hidden
                   /\ LogoutResponse(r, o) =>
                         ~loginError'.hidden \/ ErrorBannerAdded
                   /\ TransferResponse(r, o) => ErrorBannerAdded
                   /\ DepositButtonResponse(r, o) => ErrorBannerAdded
                   /\ WithdrawalButtonResponse(r, o) => ErrorBannerAdded
          /\ \A o \in DepositOutcomes :
                (Failed(o) /\ DepositResponse(r, o)) => ErrorBannerAdded]_vars

\* C13: a login that succeeds leaves one access_token cookie, with path /,
\* SameSite=Lax and max-age 604800 when the remember-me checkbox was checked,
\* 86400 when it was unchecked or missing; no cookie has another max-age.
C13_CookieMaxAge ==
    /\ [][\A r \in InFlight("login"), o \in LoginOutcomes :
             (LoginResponse(r, o) /\ ~Failed(o)) =>
                cookies' = {[name |-> "access_token",
                             value |-> "Bearer " \o o.token,
                             path |-> "/",
                             maxAge |-> IF r.env.remember_me = "on"
                                        THEN 604800 ELSE 86400,
                             sameSite |-> "Lax"]}]_vars
    /\ [](\A c \in cookies : c.maxAge \in {604800, 86400})

\* C13's case: a login with the checkbox checked has succeeded, and one with
\* the checkbox unchecked is under way.
C13_Witness ==
    /\ navigation = "/dashboard"
    /\ \E c \in cookies : c.maxAge = 604800
    /\ \E r \in InFlight("login") : r.env.remember_me = null

\* C14: a 2xx response to POST /auth/login leaves access_token and token_type
\* of the storage equal to those of the response and issues the navigation to
\* /dashboard; that navigation is never pending without a stored session.
C14_LoginStoresThenNavigates ==
    /\ [][\A r \in InFlight("login"), o \in LoginOutcomes :
             (LoginResponse(r, o) /\ ~Throws(o) /\ Ok(o.status)) =>
                /\ localStorage' = [access_token |-> o.token,
                                    token_type |-> o.tokenType]
                /\ navigation' = "/dashboard"]_vars
    /\ [](navigation = "/dashboard" => SessionExists(localStorage))

\* C14's case: on a page loaded without a session, a login has stored one and
\* the navigation to /dashboard is pending.
C14_Witness ==
    /\ navigation = "/dashboard"
    /\ headers = JsonHeaders
    /\ SessionExists(localStorage)

\* C15: a control with a request outstanding is disabled and shows the
\* processing label: the deposit submit button while a POST /api/deposit is
\* in flight, and every admin button while its status request is.
C15_OutstandingMeansDisabled ==
    /\ InFlight("deposit") # {} =>
          submitButton.disabled /\ submitButton.textContent = "Processing..."
    /\ \A b \in Buttons :
          Outstanding(b) > 0 =>
             buttons[b].disabled /\ buttons[b].textContent = "Processing..."

\* What does hold of the order: the step that issues the request of a control
\* leaves that control disabled under the processing label.
ControlDisabledWhenSent ==
    [][\A r \in NewRequests :
          /\ r.from = "deposit" =>
                submitButton'.disabled /\ submitButton'.textContent = "Processing..."
          /\ r.env.button # null =>
                buttons'[r.env.button] = [disabled |-> TRUE,
                                         textContent |-> "Processing..."]]_vars

\* C16: when the POST /auth/logout call returns a response, with whatever
\* status and whatever body, the handler removes both storage entries, expires
\* the cookie and issues the navigation to /login.
C16_LogoutIgnoresResponse ==
    [][\A r \in InFlight("logout"), o \in PlainOutcomes :
          (LogoutResponse(r, o) /\ o.kind = "response") =>
              /\ localStorage' = NoSession
              /\ cookies' = {}
              /\ navigation' = "/login"]_vars

\* C16's case: on a page loaded with a session, a logout has been answered:
\* the session is gone and the navigation to /login is pending.
C16_Witness ==
    /\ navigation = "/login"
    /\ localStorage = NoSession
    /\ cookies = {}
    /\ "Authorization" \in DOMAIN headers

\* C17: a request to an /api/ path that is issued while the storage lacks
\* access_token or token_type carries no Authorization header put there by
\* the client: none at all from the handlers of the script, and none beyond
\* the caller's own on the two surfaces.
C17_NoSessionNoAuthorization ==
    /\ []((/\ call.via # null
           /\ Protected(call.url)
           /\ ~SessionExists(call.store)) => call.headers = call.supplied)
    /\ [][\A r \in NewRequests :
             (Protected(r.url) /\ ~SessionExists(localStorage)) =>
                "Authorization" \notin DOMAIN r.headers]_vars

\* C18: for the same path, the same header map and the same storage, the
\* wrapped fetch and the htmx:configRequest hook send the same Authorization
\* header: both none, or both the same value.
C18_SurfacesAgree ==
    /\ call.via = "fetch" =>
          Get(call.headers, "Authorization")
             = Get(HtmxHeaders(call.url, call.supplied, call.store), "Authorization")
    /\ call.via = "htmx" =>
          Get(call.headers, "Authorization")
             = Get(FetchHeaders(call.url, call.supplied, call.store), "Authorization")

\* A click on admin button b.
ButtonClick(b) ==
    IF b \in DepositButtons THEN DepositButtonClick(b) ELSE WithdrawalButtonClick(b)

\* C19: the guard of an admin button is its own. A click on an enabled button
\* sends its request whatever the other buttons are doing; the click on a
\* button and the handling of its response leave every other button as it
\* was; and whichever request is outstanding can be the next one answered.
C19_GuardPerControl ==
    /\ [](\A b \in Buttons :
            (~buttons[b].disabled /\ CanSend) =>
               ENABLED (ButtonClick(b) /\ Outstanding(b)' = 1))
    /\ [](\A b \in Buttons :
            (Outstanding(b) = 1 /\ CanNotify /\ CanSetTimeout) =>
               \A o \in PlainOutcomes : ENABLED ButtonResponse(b, o))
    /\ [][\A b \in Buttons :
             (ButtonClick(b) \/ \E o \in PlainOutcomes : ButtonResponse(b, o)) =>
                \A c \in Buttons \ {b} : buttons'[c] = buttons[c]]_vars

\* C19's case: the approve and the reject button of deposit 42 both have
\* their request outstanding.
C19_Witness ==
    /\ Outstanding("deposit-42-approved") = 1
    /\ Outstanding("deposit-42-rejected") = 1
    /\ buttons["deposit-42-approved"].disabled
    /\ buttons["deposit-42-rejected"].disabled
    /\ ~buttons["withdraw-7-approved"].disabled

\* C20: the storage entries and the cookie change in no step but the handling
\* of a login answered 2xx and the handling of a logout response: the
\* registration, transfer, deposit and admin handlers, the wrapped fetch and
\* the htmx hook leave them as they were, on success as on failure.
C20_OnlyLoginAndLogoutWrite ==
    [][(localStorage' # localStorage \/ cookies' # cookies) =>
          \/ \E r \in InFlight("login"), o \in LoginOutcomes :
                LoginResponse(r, o) /\ ~Failed(o)
          \/ \E r \in InFlight("logout"), o \in PlainOutcomes :
                LogoutResponse(r, o)]_vars

\* C20's case: a login has stored a session other than the one the page
\* loaded with, and a transfer sent after it was refused: its error banner is
\* up and the session is still there.
C20_Witness ==
    /\ SessionExists(localStorage)
    /\ cookies # {}
    /\ headers # CapturedHeaders(localStorage)
    /\ \E i \in 1..Len(notifications) : notifications[i].message = "denied"
    /\ forms.transfer # BlankForms.transfer

\* C21: a login that fails (an error status, a rejected fetch or a body that
\* does not parse) leaves the storage entries, the cookie and the pending
\* navigation as they were; after an error status with a parsed body the
\* login region shows the detail of the response, or 'Login failed' when the
\* response has none.
C21_FailedLoginChangesNothing ==
    [][\A r \in InFlight("login"), o \in LoginOutcomes :
          (LoginResponse(r, o) /\ Failed(o)) =>
              /\ localStorage' = localStorage
              /\ cookies' = cookies
              /\ navigation' = navigation
              /\ ~Throws(o) =>
                    loginError' = Shown(IF o.detail # null THEN o.detail
                                        ELSE "Login failed")]_vars

\* C21's case: with a session stored, a login was refused with a detail: the
\* region shows it, and nothing is pending.
C21_Witness ==
    /\ loginError = Shown("denied")
    /\ SessionExists(localStorage)
    /\ cookies # {}
    /\ navigation = null

\* C22: a 2xx response to POST /api/transfer, its body parsed, empties the
\* transfer form and schedules one reload after 2000 ms; a transfer that
\* fails (an error status, a rejected fetch or a body that does not parse)
\* leaves the form and the timers as they were and adds an error banner.
C22_TransferResetAndReload ==
    [][\A r \in InFlight("transfer"), o \in PlainOutcomes :
          TransferResponse(r, o) =>
             IF Failed(o)
             THEN /\ forms' = forms
                  /\ timers' = timers
                  /\ navigation' = navigation
                  /\ ErrorBannerAdded
             ELSE /\ forms'.transfer = BlankForms.transfer
                  /\ forms'.deposit = forms.deposit
                  /\ timers' = timers (+) SetToBag({[to |-> "reload",
                                                     delay |-> 2000]})
                  /\ BagCardinality(timers') = BagCardinality(timers) + 1]_vars

\* C22's case: a transfer has succeeded, its form is empty and its reload is
\* pending, while a second transfer is still in flight.
C22_Witness ==
    /\ \E i \in 1..Len(notifications) :
          notifications[i].message = "Transfer successful!"
    /\ forms.transfer = BlankForms.transfer
    /\ BagIn([to |-> "reload", delay |-> 2000], timers)
    /\ InFlight("transfer") # {}

\* The access_token cookie of the jar, as a set: empty or the one cookie.
TokenCookies == {c \in cookies : c.name = "access_token"}

\* C23 as stated: the access_token cookie is set exactly when the access_token
\* storage entry is present, and its value holds the stored token.
C23_CookieMirrorsStorage ==
    /\ (TokenCookies # {}) <=> (localStorage["access_token"] # null)
    /\ \A c \in TokenCookies :
          c.value = "Bearer " \o localStorage["access_token"]

\* C23 amended: the access_token cookie is never set without the storage
\* entry and always holds the stored token, and every step of a handler that
\* changes the storage entry or the cookie leaves the cookie set exactly when
\* the entry is present; the cookie alone goes when its max-age runs out.
C23_CookieNeverWithoutStorage ==
    /\ [](\A c \in TokenCookies :
            /\ localStorage["access_token"] # null
            /\ c.value = "Bearer " \o localStorage["access_token"])
    /\ [](Cardinality(TokenCookies) <= 1)
    /\ [][(localStorage' # localStorage \/ cookies' # cookies) =>
             \/ CookieLapse
             \/ (cookies' # {}) <=> (localStorage'["access_token"] # null)]_vars

\* C23's case: the cookie of an earlier login has lapsed with the storage
\* entry still there, and a login answered since has set both anew.
C23_Witness ==
    /\ navigation = "/dashboard"
    /\ \E c \in TokenCookies :
          /\ c.value = "Bearer " \o localStorage["access_token"]
          /\ Get(headers, "Authorization") # AuthValue(localStorage["token_type"],
                                                       localStorage["access_token"])
    /\ "Authorization" \in DOMAIN headers

====
